---- MODULE Spec2Model ----
(***************************************************************************)
(* Model of src/exercise1.py: the height-data statistics functions and the  *)
(* script that calls them in turn, and of who_suffers_more_from_disease of *)
(* src/exercise2.py.                                                       *)
(*                                                                         *)
(* Numbers.  Sample values are integers.  Every derived quantity is kept   *)
(* as an exact integer multiple of the real value, so that no rounding is  *)
(* introduced by the model:                                                *)
(*   percentiles      are stored times 100  (np.percentile ranks are q/100)*)
(*   fences           are stored times 200  (1.5 * IQR = 3 * IQR / 2)       *)
(*   a probability    is stored as the pair <<count, size>>                *)
(*   mean, variance   are stored as sum, size*sumsq - sum^2, median * 2    *)
(* Python values handed to a function are records [t |-> type, v |-> n].   *)
(***************************************************************************)
EXTENDS Integers, Sequences, FiniteSets

VARIABLES height_data, heart_disease_data, op, args, outcome, result, pc, stdout

vars == <<height_data, heart_disease_data, op, args, outcome, result, pc, stdout>>

\* ------------------------------------------------------------------ bounds

MaxLen == 5
MaxVal == 2
MaxRun == 2
MaxExtra == 1
MaxShift == 1
MaxListLen == 2
MaxRows == 3
MaxPeriod == 4
MaxWindow == 2

\* The fixed subsample size of random_sampling.
SampleSize == 50

\* The default arguments: generate_height_data(size, mean, std_dev),
\* hypothesis_testing(null_hypothesis_mean), calculate_probability(threshold_height).
DefaultSize == 1000
DefaultMean == 170
DefaultStdDev == 10
DefaultNullHypothesisMean == 170
DefaultThresholdHeight == 180

Values == 0 .. MaxVal

\* ------------------------------------------------------------ Python values

PyInt(n) == [t |-> "int", v |-> n]
PyFloat(n) == [t |-> "float", v |-> n]
PyStr == [t |-> "str", v |-> 0]

\* isinstance(x, int)
IsInt(x) == x.t = "int"

\* isinstance(x, (int, float))
IsNumeric(x) == x.t \in {"int", "float"}

\* A sample as the caller holds it: None, a str, a list of numbers or a
\* numpy.ndarray of numbers.
Sample(kind, elems) == [kind |-> kind, elems |-> elems]

\* isinstance(height_data, np.ndarray)
IsNdarray(data) == data.kind = "ndarray"

\* ----------------------------------------------------------------- helpers

\* s[lo] + ... + s[hi], by halves.
RECURSIVE SumRange(_, _, _)
SumRange(s, lo, hi) ==
    IF lo > hi THEN 0
    ELSE IF lo = hi THEN s[lo]
    ELSE SumRange(s, lo, (lo + hi) \div 2) + SumRange(s, (lo + hi) \div 2 + 1, hi)

SumSeq(s) == SumRange(s, 1, Len(s))

SumSq(s) == SumSeq([i \in DOMAIN s |-> s[i] * s[i]])

\* The variance of a non-empty s, times Len(s)^2: the squared deviations are
\* taken from the mean rounded down, which leaves the variance as it is and
\* keeps the intermediate numbers small.
ScaledVariance(s) ==
    LET c == SumSeq(s) \div Len(s)
        d == [i \in DOMAIN s |-> s[i] - c]
    IN  Len(s) * SumSq(d) - SumSeq(d) * SumSeq(d)

\* The ascending rearrangement of s: its k-th element is the value v with
\* fewer than k elements of s below it and at least k elements not above it.
SortAscending(s) ==
    [k \in DOMAIN s |->
        CHOOSE v \in {s[i] : i \in DOMAIN s} :
            /\ Cardinality({i \in DOMAIN s : s[i] < v}) < k
            /\ k <= Cardinality({i \in DOMAIN s : s[i] <= v})]

\* The input order kept: what identify_outliers would filter without its sort.
sorted_Unsorted(s) == s

\* sorted(height_data)
sorted(s) == SortAscending(s)

\* The subsets of S that have exactly k elements (none when k < 0).
RECURSIVE KSubsets(_, _)
KSubsets(S, k) ==
    IF k < 0 THEN {}
    ELSE IF k = 0 THEN {{}}
    ELSE UNION {{T \cup {x} : T \in KSubsets({y \in S : y < x}, k - 1)} : x \in S}

\* How often v occurs in the sequence s.
Occurrences(s, v) == Cardinality({i \in DOMAIN s : s[i] = v})

Return(v) == [outcome |-> "ok", result |-> v]
Raise(e) == [outcome |-> e, result |-> <<>>]

\* --------------------------------------------------------------- validation

\* The size check raising the wrong error class.
Validate_WrongError(data) ==
    IF ~IsNdarray(data) THEN "TypeError"
    ELSE IF Len(data.elems) = 0 THEN "TypeError"
    ELSE "ok"

\* The type check accepting a plain list as well.
Validate_AcceptList(data) ==
    IF ~(IsNdarray(data) \/ data.kind = "list") THEN "TypeError"
    ELSE IF Len(data.elems) = 0 THEN "ValueError"
    ELSE "ok"

\* The two checks every function of the sample starts with:
\*   if not isinstance(height_data, np.ndarray): raise TypeError
\*   if height_data.size == 0: raise ValueError
Validate(data) ==
    IF ~IsNdarray(data) THEN "TypeError"
    ELSE IF Len(data.elems) = 0 THEN "ValueError"
    ELSE "ok"

\* ------------------------------------------------------ generate_height_data

\* draw is what np.random.normal(mean, std_dev, size) returns: size numbers.
generate_height_data(size, mean, std_dev, draw) ==
    IF ~IsInt(size) THEN Raise("TypeError")
    ELSE IF size.v <= 0 THEN Raise("ValueError")
    ELSE IF ~IsNumeric(mean) THEN Raise("TypeError")
    ELSE IF ~IsNumeric(std_dev) \/ std_dev.v <= 0 THEN Raise("ValueError")
    ELSE Return(draw)

\* ---------------------------------------------------- descriptive_statistics

\* np.median(a), times 2.
np_median(a) ==
    LET s == SortAscending(a)
        n == Len(a)
    IN  IF n % 2 = 1 THEN 2 * s[(n + 1) \div 2]
        ELSE s[n \div 2] + s[n \div 2 + 1]

\* <<mean * n, variance * n^2, median * 2>> for n = the sample's size.
descriptive_statistics(data) ==
    IF Validate(data) # "ok" THEN Raise(Validate(data))
    ELSE LET a == data.elems
             n == Len(a)
         IN  Return(<<SumSeq(a), ScaledVariance(a), np_median(a)>>)

\* ------------------------------------------------------- visualise_histogram

\* The plot is drawn by matplotlib; nothing is returned.
visualise_histogram(data) ==
    IF Validate(data) # "ok" THEN Raise(Validate(data))
    ELSE Return(<<>>)

\* ------------------------------------------------------ calculate_percentile

\* The interpolation read from the array as given, without ordering it first.
np_percentile_Unsorted(a, q) ==
    LET n == Len(a)
        pos == (n - 1) * q
        lo == pos \div 100
        g == pos % 100
        hi == IF lo + 1 < n THEN lo + 1 ELSE lo
    IN  100 * a[lo + 1] + g * (a[hi + 1] - a[lo + 1])

\* The order statistic below the virtual index, without interpolation.
np_percentile_Lower(a, q) ==
    LET s == SortAscending(a)
        n == Len(a)
        pos == (n - 1) * q
        lo == pos \div 100
    IN  100 * s[lo + 1]

\* np.percentile(a, q), times 100: linear interpolation between the order
\* statistics around the virtual index (n - 1) * q / 100.
np_percentile(a, q) ==
    LET s == SortAscending(a)
        n == Len(a)
        pos == (n - 1) * q
        lo == pos \div 100
        g == pos % 100
        hi == IF lo + 1 < n THEN lo + 1 ELSE lo
    IN  100 * s[lo + 1] + g * (s[hi + 1] - s[lo + 1])

calculate_percentile(data) ==
    IF Validate(data) # "ok" THEN Raise(Validate(data))
    ELSE Return(<<np_percentile(data.elems, 25),
                  np_percentile(data.elems, 50),
                  np_percentile(data.elems, 75)>>)

\* --------------------------------------------------------- identify_outliers

\* upper_boundary and lower_boundary, times 200.
Boundaries(data) ==
    LET percentiles == calculate_percentile(data).result
        q3 == percentiles[3]
        q1 == percentiles[1]
        iqr == q3 - q1
    IN  [upper |-> 2 * q3 + 3 * iqr, lower |-> 2 * q1 - 3 * iqr]

\* The comparison made inclusive.
IsOutlier_Inclusive(d, b) == 200 * d <= b.lower \/ 200 * d >= b.upper

\* data < lower_boundary or data > upper_boundary
IsOutlier(d, b) == 200 * d < b.lower \/ 200 * d > b.upper

identify_outliers(data) ==
    IF Validate(data) # "ok" THEN Raise(Validate(data))
    ELSE LET b == Boundaries(data)
             sorted_height_data == sorted(data.elems)
         IN  Return(SelectSeq(sorted_height_data, LAMBDA d : IsOutlier(d, b)))

\* ----------------------------------------------------------- random_sampling

\* The size check raising the wrong error class.
TooSmall_WrongError(data) ==
    IF ~IsNdarray(data) THEN "TypeError"
    ELSE IF Len(data.elems) < SampleSize THEN "TypeError"
    ELSE "ok"

\*   if not isinstance(height_data, np.ndarray): raise TypeError
\*   if height_data.size < 50: raise ValueError
TooSmall(data) ==
    IF ~IsNdarray(data) THEN "TypeError"
    ELSE IF Len(data.elems) < SampleSize THEN "ValueError"
    ELSE "ok"

\* The values of a at the positions that are not in skipped, in their order.
Drawn(a, skipped) ==
    LET kept == SelectSeq([i \in DOMAIN a |-> i], LAMBDA i : i \notin skipped)
    IN  [k \in DOMAIN kept |-> a[kept[k]]]

\* The sequence s started shift places later, wrapping around.
Rotate(s, shift) ==
    IF s = <<>> THEN s
    ELSE SubSeq(s, (shift % Len(s)) + 1, Len(s)) \o SubSeq(s, 1, shift % Len(s))

\* A draw with replacement: the first value drawn is drawn again.
np_random_choice_Replace(a, skipped, shift) ==
    LET drawn == Rotate(Drawn(a, skipped), shift)
    IN  IF Len(drawn) < 2 THEN drawn
        ELSE <<drawn[1], drawn[1]>> \o SubSeq(drawn, 3, Len(drawn))

\* np.random.choice(a, 50, replace=False): the values at 50 distinct positions
\* of a.  The draw is named by the positions it leaves out (skipped) and by
\* the rotation (shift) of the order in which the drawn positions come out.
np_random_choice(a, skipped, shift) == Rotate(Drawn(a, skipped), shift)

\* The draws np.random.choice can make from n positions.
Draws(n) == KSubsets(1 .. n, n - SampleSize)

random_sampling(data, skipped, shift) ==
    IF TooSmall(data) # "ok" THEN Raise(TooSmall(data))
    ELSE Return(np_random_choice(data.elems, skipped, shift))

\* -------------------------------------------------------- hypothesis_testing

\* stats.ttest_1samp(a, popmean) as <<t_stat, p_value>>, each by its class.
\* With d = mean - popmean and s = the sample standard deviation (ddof = 1),
\* t = d / (s / sqrt(n)) and p = 2 * sf(|t|, n - 1):
\*   n = 1:          s is 0/0, so t and p are nan
\*   s = 0, d = 0:   t is 0/0, so t and p are nan
\*   s = 0, d # 0:   t is +-inf and p is 0
\*   s > 0, d = 0:   t is 0 and p is 1
\*   s > 0, d # 0:   t is finite and nonzero, p lies between 0 and 1
stats_ttest_1samp(a, popmean) ==
    LET n == Len(a)
        d == SumSeq(a) - n * popmean
        v == IF n = 0 THEN 0 ELSE ScaledVariance(a)
    IN  IF n < 2 THEN <<"nan", "nan">>
        ELSE IF v = 0
             THEN IF d = 0 THEN <<"nan", "nan">>
                  ELSE <<IF d > 0 THEN "+inf" ELSE "-inf", "zero">>
        ELSE IF d = 0 THEN <<"zero", "one">>
        ELSE <<IF d > 0 THEN "positive" ELSE "negative", "between">>

\* The parameter's type checked before the sample's emptiness.
hypothesis_testing_ParameterFirst(data, null_hypothesis_mean) ==
    IF ~IsNdarray(data) THEN Raise("TypeError")
    ELSE IF ~IsNumeric(null_hypothesis_mean) THEN Raise("TypeError")
    ELSE IF Len(data.elems) = 0 THEN Raise("ValueError")
    ELSE Return(stats_ttest_1samp(data.elems, null_hypothesis_mean.v))

hypothesis_testing(data, null_hypothesis_mean) ==
    IF ~IsNdarray(data) THEN Raise("TypeError")
    ELSE IF Len(data.elems) = 0 THEN Raise("ValueError")
    ELSE IF ~IsNumeric(null_hypothesis_mean) THEN Raise("TypeError")
    ELSE Return(stats_ttest_1samp(data.elems, null_hypothesis_mean.v))

\* ----------------------------------------------------- calculate_probability

\* The comparison made inclusive.
Exceeds_Inclusive(a, threshold) ==
    [i \in DOMAIN a |-> IF a[i] >= threshold THEN 1 ELSE 0]

\* data > threshold_height, elementwise (True counts as 1 in np.sum)
Exceeds(a, threshold) ==
    [i \in DOMAIN a |-> IF a[i] > threshold THEN 1 ELSE 0]

\* The probability as <<count, size>>, standing for count / size.
calculate_probability(data, threshold_height) ==
    IF ~IsNdarray(data) THEN Raise("TypeError")
    ELSE IF Len(data.elems) = 0 THEN Raise("ValueError")
    ELSE IF ~IsNumeric(threshold_height) THEN Raise("TypeError")
    ELSE Return(<<SumSeq(Exceeds(data.elems, threshold_height.v)), Len(data.elems)>>)

\* -------------------------------------------------------------------- inputs

SeqsUpTo(n) == UNION {[1 .. k -> Values] : k \in 0 .. n}

\* j times a, then MaxLen + 2 times b, then k times c.
Blocks(a, j, b, c, k) ==
    [i \in 1 .. (j + MaxLen + 2 + k) |->
        IF i <= j THEN a ELSE IF i <= j + MaxLen + 2 THEN b ELSE c]

\* n values that repeat with period m (all different when m > n).
Periodic(n, m) == [i \in 1 .. n |-> i % m]

SmallArrays == {Sample("ndarray", e) : e \in SeqsUpTo(MaxLen)}

BlockArrays ==
    {Sample("ndarray", Blocks(a, j, b, c, k)) :
        a \in Values, j \in 0 .. MaxRun, b \in Values, c \in Values, k \in 0 .. MaxRun}

LargeArrays ==
    {Sample("ndarray", Periodic(n, m)) :
        n \in (SampleSize - 2) .. (SampleSize + MaxExtra),
        m \in {MaxVal + 1, SampleSize + MaxExtra + 1}}

Lists == {Sample("list", e) : e \in SeqsUpTo(MaxListLen)}

\* A sample with one far value, in ascending order and in descending order.
ExampleSample == <<10, 12, 14, 15, 18, 19, 20, 1000>>

ExampleArrays ==
    {Sample("ndarray", ExampleSample),
     Sample("ndarray", [i \in DOMAIN ExampleSample |->
                           ExampleSample[Len(ExampleSample) + 1 - i]])}

InputSamples ==
    {Sample("NoneType", <<>>), Sample("str", <<>>)}
        \cup Lists \cup SmallArrays \cup BlockArrays \cup LargeArrays
        \cup ExampleArrays

\* The companion parameters a caller passes: numbers around the sample's
\* values, and a string.
Parameters ==
    {PyInt(n) : n \in -1 .. MaxVal + 1} \cup {PyFloat(n) : n \in {1}} \cup {PyStr}

Sizes == {PyInt(n) : n \in -1 .. MaxLen} \cup {PyFloat(2), PyStr}
Means == {PyInt(1), PyFloat(1), PyStr}
StdDevs == {PyInt(-1), PyInt(0), PyInt(1), PyFloat(1), PyStr}

\* ------------------------------------------------------------- state machine

\* No table loaded.
NoData == [columns |-> {}, dtype |-> "none", rows |-> <<>>]

Init ==
    /\ height_data \in InputSamples
    /\ heart_disease_data = NoData
    /\ op = "none"
    /\ args = <<>>
    /\ outcome = "none"
    /\ result = <<>>
    /\ pc = "test"
    /\ stdout = <<>>

\* A call that leaves the caller's sample as it is.  The functions keep no
\* state between calls, so a run is one call on the sample the caller holds:
\* a sample it was given, or the one generate_height_data has just returned.
Called(name, arguments, r) ==
    /\ op \in {"none", "generate_height_data"}
    /\ op' = name
    /\ args' = arguments
    /\ outcome' = r.outcome
    /\ result' = r.result
    /\ UNCHANGED <<height_data, heart_disease_data, pc, stdout>>

\* height_data = generate_height_data(size, mean, std_dev): the caller's
\* sample is bound by the call, and stays unbound when the call raises.
GenerateHeightData ==
    /\ op = "none"
    /\ height_data.kind = "NoneType"
    /\ \E size \in Sizes, mean \in Means, std_dev \in StdDevs :
         \E draw \in (IF IsInt(size) /\ size.v > 0 THEN [1 .. size.v -> Values] ELSE {<<>>}) :
            LET r == generate_height_data(size, mean, std_dev, draw)
            IN  /\ op' = "generate_height_data"
                /\ args' = <<size, mean, std_dev>>
                /\ outcome' = r.outcome
                /\ result' = r.result
                /\ height_data' = IF r.outcome = "ok" THEN Sample("ndarray", r.result)
                                  ELSE height_data
                /\ UNCHANGED <<heart_disease_data, pc, stdout>>

DescriptiveStatistics ==
    Called("descriptive_statistics", <<>>, descriptive_statistics(height_data))

VisualiseHistogram ==
    Called("visualise_histogram", <<>>, visualise_histogram(height_data))

CalculatePercentile ==
    Called("calculate_percentile", <<>>, calculate_percentile(height_data))

IdentifyOutliers ==
    Called("identify_outliers", <<>>, identify_outliers(height_data))

RandomSampling ==
    /\ op \in {"none", "generate_height_data"}
    /\ IF TooSmall(height_data) # "ok"
       THEN Called("random_sampling", <<>>, random_sampling(height_data, {}, 0))
       ELSE \E skipped \in Draws(Len(height_data.elems)), shift \in 0 .. MaxShift :
               Called("random_sampling", <<>>, random_sampling(height_data, skipped, shift))

HypothesisTesting ==
    \E null_hypothesis_mean \in Parameters :
        Called("hypothesis_testing", <<null_hypothesis_mean>>,
               hypothesis_testing(height_data, null_hypothesis_mean))

CalculateProbability ==
    \E threshold_height \in Parameters :
        Called("calculate_probability", <<threshold_height>>,
               calculate_probability(height_data, threshold_height))

Next ==
    \/ GenerateHeightData
    \/ DescriptiveStatistics
    \/ VisualiseHistogram
    \/ CalculatePercentile
    \/ IdentifyOutliers
    \/ RandomSampling
    \/ HypothesisTesting
    \/ CalculateProbability

Spec == Init /\ [][Next]_vars

\* ------------------------------------------------------ exercise1 __main__

\* What a function returns when it returns: the type that decides whether the
\* value can be subscripted.  np.sum(...) / data.size is a numpy float64.
ReturnType(name) ==
    CASE name = "descriptive_statistics" -> "tuple"
      [] name = "calculate_percentile" -> "ndarray"
      [] name = "identify_outliers" -> "list"
      [] name = "random_sampling" -> "ndarray"
      [] name = "hypothesis_testing" -> "tuple"
      [] name = "calculate_probability" -> "float64"
      [] OTHER -> "NoneType"

\* name(...)[i] for the call's outcome r: the element at index i (from 0) of
\* a tuple, list or array; IndexError for a numpy scalar ("invalid index to
\* scalar variable") and for an index past the end.
Subscript(name, r, i) ==
    IF r.outcome # "ok" THEN r
    ELSE IF ReturnType(name) \in {"float64", "NoneType"} THEN Raise("IndexError")
    ELSE IF i >= Len(r.result) THEN Raise("IndexError")
    ELSE Return(<<r.result[i + 1]>>)

\* The datasets np.random.normal(170, 10, 1000) is taken to draw: values that
\* repeat around the mean with period m, the first one far above the mean
\* by far.
GeneratedData(m, far) ==
    [i \in 1 .. DefaultSize |->
        IF i = 1 THEN DefaultMean + far
        ELSE DefaultMean + (i % m) - (m \div 2)]

GeneratedDatasets ==
    {GeneratedData(m, far) : m \in 1 .. MaxPeriod, far \in {0, 5 * DefaultStdDev}}

\* The draws np.random.choice is taken to make from n positions: the 50
\* positions after the first k.
WindowDraws(n) ==
    {(1 .. n) \ ((k + 1) .. (k + SampleSize)) : k \in 0 .. MaxWindow}

InitMain ==
    /\ height_data = Sample("NoneType", <<>>)
    /\ heart_disease_data = NoData
    /\ op = "none"
    /\ args = <<>>
    /\ outcome = "none"
    /\ result = <<>>
    /\ pc = "231"
    /\ stdout = <<>>

\* One statement of the script: the value r is computed and printed, and the
\* script goes on to the statement at next; when the computation raises, the
\* script ends with the traceback and nothing more is printed.
Statement(next, name, r) ==
    /\ op' = name
    /\ args' = <<>>
    /\ outcome' = r.outcome
    /\ result' = r.result
    /\ pc' = IF r.outcome = "ok" THEN next ELSE "raised"
    /\ stdout' = IF r.outcome = "ok" THEN Append(stdout, r.result) ELSE stdout
    /\ UNCHANGED <<height_data, heart_disease_data>>

\* The statements of the script, by their line.
Main ==
    IF pc = "231"
    THEN \E draw \in GeneratedDatasets :
            LET r == generate_height_data(PyInt(DefaultSize), PyInt(DefaultMean),
                                          PyInt(DefaultStdDev), draw)
            IN  /\ op' = "generate_height_data"
                /\ args' = <<>>
                /\ outcome' = r.outcome
                /\ result' = <<>>
                /\ pc' = IF r.outcome = "ok" THEN "234" ELSE "raised"
                /\ height_data' = IF r.outcome = "ok" THEN Sample("ndarray", r.result)
                                  ELSE height_data
                /\ UNCHANGED <<heart_disease_data, stdout>>
    ELSE IF pc = "234"
    THEN Statement("235", "descriptive_statistics",
             Subscript("descriptive_statistics", descriptive_statistics(height_data), 0))
    ELSE IF pc = "235"
    THEN Statement("236", "descriptive_statistics",
             Subscript("descriptive_statistics", descriptive_statistics(height_data), 1))
    ELSE IF pc = "236"
    THEN Statement("238", "descriptive_statistics",
             Subscript("descriptive_statistics", descriptive_statistics(height_data), 2))
    ELSE IF pc = "238"
    THEN Statement("241", "visualise_histogram", visualise_histogram(height_data))
    ELSE IF pc = "241"
    THEN Statement("242", "calculate_percentile",
             Subscript("calculate_percentile", calculate_percentile(height_data), 0))
    ELSE IF pc = "242"
    THEN Statement("243", "calculate_percentile",
             Subscript("calculate_percentile", calculate_percentile(height_data), 1))
    ELSE IF pc = "243"
    THEN Statement("246", "calculate_percentile",
             Subscript("calculate_percentile", calculate_percentile(height_data), 2))
    ELSE IF pc = "246"
    THEN Statement("249", "identify_outliers", identify_outliers(height_data))
    ELSE IF pc = "249"
    THEN \E skipped \in WindowDraws(Len(height_data.elems)), shift \in 0 .. MaxShift :
            Statement("252", "random_sampling",
                random_sampling(height_data, skipped, shift))
    ELSE IF pc = "252"
    THEN Statement("253", "hypothesis_testing",
             Subscript("hypothesis_testing",
                 hypothesis_testing(height_data, PyInt(DefaultNullHypothesisMean)), 0))
    ELSE IF pc = "253"
    THEN Statement("256", "calculate_probability",
             Subscript("calculate_probability",
                 calculate_probability(height_data, PyInt(DefaultThresholdHeight)), 1))
    ELSE IF pc = "256"
    THEN Statement("done", "calculate_probability",
             calculate_probability(height_data, PyInt(DefaultThresholdHeight)))
    ELSE FALSE

NextMain == Main

SpecMain == InitMain /\ [][NextMain]_vars

\* ------------------------------------------- who_suffers_more_from_disease

\* A DataFrame: the columns it has among 'Sex' and 'Disease', the dtype of
\* its 'Disease' column, and its rows.  A row's Disease is TRUE where the
\* column holds True (or 1, when the dtype is int64).
DataFrame(columns, dtype, rows) == [columns |-> columns, dtype |-> dtype, rows |-> rows]

\* heart_disease_data.loc[(Sex == sex) & (Disease == True)].shape[0]
with_disease(data, sex) ==
    Cardinality({i \in DOMAIN data.rows :
                    data.rows[i].Sex = sex /\ data.rows[i].Disease})

\* <<gender, percentage_difference>>, the percentage as numerator and
\* denominator: <<gender, (higher - lower) * 100, higher>>.  The counts are
\* Python ints, so a division by 0 raises ZeroDivisionError.
who_suffers_more_from_disease(data) ==
    IF "Sex" \notin data.columns \/ "Disease" \notin data.columns
    THEN Raise("ValueError")
    ELSE IF data.dtype # "bool" THEN Raise("TypeError")
    ELSE LET men_with_disease == with_disease(data, "male")
             women_with_disease == with_disease(data, "female")
             higher == IF men_with_disease >= women_with_disease
                       THEN men_with_disease ELSE women_with_disease
             lower == IF men_with_disease <= women_with_disease
                      THEN men_with_disease ELSE women_with_disease
         IN  IF higher = 0 THEN Raise("ZeroDivisionError")
             ELSE Return(<<IF men_with_disease > women_with_disease
                           THEN "men" ELSE "women",
                           (higher - lower) * 100, higher>>)

Rows == [Sex : {"male", "female"}, Disease : BOOLEAN]

DataFrames ==
    {DataFrame(columns, dtype, rows) :
        columns \in SUBSET {"Sex", "Disease"},
        dtype \in {"bool", "int64"},
        rows \in UNION {[1 .. n -> Rows] : n \in 0 .. MaxRows}}

InitDisease ==
    /\ height_data = Sample("NoneType", <<>>)
    /\ heart_disease_data \in DataFrames
    /\ op = "none"
    /\ args = <<>>
    /\ outcome = "none"
    /\ result = <<>>
    /\ pc = "test"
    /\ stdout = <<>>

WhoSuffersMoreFromDisease ==
    Called("who_suffers_more_from_disease", <<>>,
           who_suffers_more_from_disease(heart_disease_data))

NextDisease == WhoSuffersMoreFromDisease

SpecDisease == InitDisease /\ [][NextDisease]_vars

\* -------------------------------------------------------------------- claims

Returned(name) == op = name /\ outcome = "ok"

\* A valid sample: a non-empty array of numbers.
ValidSample == IsNdarray(height_data) /\ Len(height_data.elems) > 0

EmptySample == IsNdarray(height_data) /\ Len(height_data.elems) = 0

\* The fences of the caller's sample, times 200, from its own percentiles.
LowerFence ==
    LET p == calculate_percentile(height_data).result
    IN  2 * p[1] - 3 * (p[3] - p[1])

UpperFence ==
    LET p == calculate_percentile(height_data).result
    IN  2 * p[3] + 3 * (p[3] - p[1])

OutsideFences(v) == 200 * v < LowerFence \/ 200 * v > UpperFence

Ascending(s) == \A i, j \in DOMAIN s : i < j => s[i] <= s[j]

NoDuplicates(s) == \A i, j \in DOMAIN s : i < j => s[i] # s[j]

ValuesOf(s) == {s[i] : i \in DOMAIN s}

\* C1: for a valid sample, every value identify_outliers returns lies
\* strictly below p25 - 1.5*IQR or strictly above p75 + 1.5*IQR of the sample's
\* own percentiles; a value on a fence or inside the fences is never returned.
C1_OutliersStrictlyOutside ==
    (op = "identify_outliers" /\ ValidSample) =>
        /\ outcome = "ok"
        /\ \A i \in DOMAIN result : OutsideFences(result[i])

\* An outlier is returned from a sample that also holds a value on a fence.
C1_Witness ==
    /\ Returned("identify_outliers")
    /\ result # <<>>
    /\ \E i \in DOMAIN height_data.elems :
          200 * height_data.elems[i] = UpperFence /\ height_data.elems[i] \notin ValuesOf(result)

\* C2: for a valid sample, the result of identify_outliers is ascending and
\* holds each value that is strictly outside the fences exactly as often as the
\* sample holds it, and no other value: it is the sorted sample's outliers, in
\* the sorted order and not in the order of the input.
C2_OutliersExactAndSorted ==
    (op = "identify_outliers" /\ ValidSample) =>
        /\ outcome = "ok"
        /\ Ascending(result)
        /\ \A v \in ValuesOf(height_data.elems) \cup ValuesOf(result) :
              Occurrences(result, v) =
                  IF OutsideFences(v) THEN Occurrences(height_data.elems, v) ELSE 0

\* Outliers on both sides, one of them twice, given in descending order.
C2_Witness ==
    /\ Returned("identify_outliers")
    /\ \E v \in ValuesOf(result) : Occurrences(result, v) >= 2
    /\ \E i, j \in DOMAIN height_data.elems :
          /\ i < j
          /\ height_data.elems[i] > height_data.elems[j]
          /\ OutsideFences(height_data.elems[i])
          /\ OutsideFences(height_data.elems[j])

\* C3: for a valid sample, calculate_percentile returns exactly three values
\* p25, p50, p75 with p25 <= p50 <= p75.
C3_PercentilesOrdered ==
    (op = "calculate_percentile" /\ ValidSample) =>
        /\ outcome = "ok"
        /\ Len(result) = 3
        /\ result[1] <= result[2]
        /\ result[2] <= result[3]

\* Three different percentiles of a sample that was not given in order.
C3_Witness ==
    /\ Returned("calculate_percentile")
    /\ ~Ascending(height_data.elems)
    /\ result[1] < result[2]
    /\ result[2] < result[3]

\* C4 as stated: for a sample of at least 50 elements, repeated values
\* included, random_sampling returns exactly 50 elements, each present in the
\* sample, and no two returned elements are equal.
C4_SubsampleNoDuplicateValues ==
    (op = "random_sampling" /\ IsNdarray(height_data)
        /\ Len(height_data.elems) >= SampleSize) =>
        /\ outcome = "ok"
        /\ Len(result) = SampleSize
        /\ ValuesOf(result) \subseteq ValuesOf(height_data.elems)
        /\ NoDuplicates(result)

\* C4 amended: for a sample of at least 50 elements, random_sampling returns
\* exactly 50 elements, each present in the sample, drawn at distinct
\* positions: a value occurs in the result at most as often as in the sample,
\* so the result has no duplicates when the sample has none.
C4_SubsampleDistinctPositions ==
    (op = "random_sampling" /\ IsNdarray(height_data)
        /\ Len(height_data.elems) >= SampleSize) =>
        /\ outcome = "ok"
        /\ Len(result) = SampleSize
        /\ ValuesOf(result) \subseteq ValuesOf(height_data.elems)
        /\ \A v \in ValuesOf(result) :
              Occurrences(result, v) <= Occurrences(height_data.elems, v)
        /\ NoDuplicates(height_data.elems) => NoDuplicates(result)

\* A subsample of a larger sample with repeated values that repeats a value.
C4_Witness ==
    /\ Returned("random_sampling")
    /\ Len(height_data.elems) > SampleSize
    /\ ~NoDuplicates(result)

\* C5: for a non-empty sample and a numeric threshold, calculate_probability
\* returns (number of values strictly greater than the threshold) / (size);
\* values equal to the threshold are not counted; the result is in [0, 1].
C5_ExceedanceProbability ==
    (op = "calculate_probability" /\ ValidSample /\ IsNumeric(args[1])) =>
        /\ outcome = "ok"
        /\ result[1] = Cardinality({i \in DOMAIN height_data.elems :
                                       height_data.elems[i] > args[1].v})
        /\ result[2] = Len(height_data.elems)
        /\ 0 <= result[1]
        /\ result[1] <= result[2]
        /\ result[2] > 0

\* A threshold that some values equal, some exceed and some stay below.
C5_Witness ==
    /\ Returned("calculate_probability")
    /\ \E i \in DOMAIN height_data.elems : height_data.elems[i] = args[1].v
    /\ 0 < result[1]
    /\ result[1] < result[2] - 1

\* C6: for every sample that passes the validation of hypothesis_testing
\* (one element and all-equal values included), the returned probability-value
\* lies in [0, 1].
C6_PValueInUnitInterval ==
    Returned("hypothesis_testing") => result[2] \in {"zero", "between", "one"}

\* C7: an empty sample given to descriptive_statistics, calculate_percentile,
\* identify_outliers, calculate_probability or hypothesis_testing raises
\* ValueError and returns no result.  The sample is an (empty) array; what is
\* not an array is the matter of C8.
C7_EmptySampleRaisesValueError ==
    (op \in {"descriptive_statistics", "calculate_percentile", "identify_outliers",
             "calculate_probability", "hypothesis_testing"} /\ EmptySample) =>
        /\ outcome = "ValueError"
        /\ result = <<>>

\* identify_outliers has been called on the empty array and has raised.
C7_Witness ==
    /\ op = "identify_outliers"
    /\ EmptySample
    /\ outcome = "ValueError"

SampleOperations ==
    {"descriptive_statistics", "visualise_histogram", "calculate_percentile",
     "identify_outliers", "random_sampling", "hypothesis_testing",
     "calculate_probability"}

\* A sequence of numbers, whatever holds it.
NumericSequence(data) == data.kind \in {"list", "ndarray"}

NumericArguments == args = <<>> \/ IsNumeric(args[1])

\* C8 as stated: a sample that is not a sequence of numbers raises TypeError
\* in every operation, and a sequence of numbers is never rejected as a type
\* mismatch.
C8_TypeErrorIffNotNumericSequence ==
    op \in SampleOperations =>
        /\ ~NumericSequence(height_data) => outcome = "TypeError"
        /\ (NumericSequence(height_data) /\ NumericArguments) => outcome # "TypeError"

\* C8 amended: a sample that is not a numpy array, a plain list of numbers
\* included, raises TypeError in every operation and returns nothing; an array
\* of numbers is never rejected as a type mismatch.
C8_TypeErrorIffNotArray ==
    op \in SampleOperations =>
        /\ ~IsNdarray(height_data) => (outcome = "TypeError" /\ result = <<>>)
        /\ (IsNdarray(height_data) /\ NumericArguments) => outcome # "TypeError"

\* A non-empty list of numbers has been rejected with TypeError.
C8_Witness ==
    /\ op \in SampleOperations
    /\ height_data.kind = "list"
    /\ Len(height_data.elems) > 0
    /\ outcome = "TypeError"

\* C9: random_sampling on a sample of fewer than 50 elements (the empty
\* sample included) raises ValueError and returns no partial subsample.
C9_ShortSampleRaisesValueError ==
    (op = "random_sampling" /\ IsNdarray(height_data)
        /\ Len(height_data.elems) < SampleSize) =>
        /\ outcome = "ValueError"
        /\ result = <<>>

\* random_sampling has raised on a sample of 49 elements.
C9_Witness ==
    /\ op = "random_sampling"
    /\ IsNdarray(height_data)
    /\ Len(height_data.elems) = SampleSize - 1
    /\ outcome = "ValueError"

\* C10: generate_height_data raises TypeError when size, mean or std_dev is
\* not of the expected type, ValueError when size or std_dev is not positive,
\* and otherwise returns a dataset of exactly size elements.  (Where both a
\* type and a value are wrong, either error satisfies the claim.)
C10_GenerateContract ==
    op = "generate_height_data" =>
        LET size == args[1]
            mean == args[2]
            std_dev == args[3]
            badType == ~IsInt(size) \/ ~IsNumeric(mean) \/ ~IsNumeric(std_dev)
            badValue == (IsInt(size) /\ size.v <= 0)
                            \/ (IsNumeric(std_dev) /\ std_dev.v <= 0)
        IN  /\ (badType /\ ~badValue) => outcome = "TypeError"
            /\ (badValue /\ ~badType) => outcome = "ValueError"
            /\ (badType /\ badValue) => outcome \in {"TypeError", "ValueError"}
            /\ (~badType /\ ~badValue) => (outcome = "ok" /\ Len(result) = size.v)

\* C11: for the sample [10, 12, 14, 15, 18, 19, 20, 1000] the percentiles by
\* linear interpolation are p25 = 13.5 and p75 = 19.25, hence IQR = 5.75 and
\* upper fence = 27.875, and identify_outliers returns exactly [1000].
C11_ExampleSample ==
    height_data = Sample("ndarray", ExampleSample) =>
        /\ op = "calculate_percentile" =>
              /\ outcome = "ok"
              /\ result[1] = 1350
              /\ result[3] = 1925
        /\ op = "identify_outliers" =>
              /\ outcome = "ok"
              /\ calculate_percentile(height_data).result[3]
                     - calculate_percentile(height_data).result[1] = 575
              /\ Boundaries(height_data).upper = 5575
              /\ result = <<1000>>

\* identify_outliers has returned for the example sample.
C11_Witness ==
    /\ height_data = Sample("ndarray", ExampleSample)
    /\ Returned("identify_outliers")
    /\ result = <<1000>>

\* C13: hypothesis_testing and calculate_probability check the sample's type,
\* then its emptiness, then the parameter's type, and the first failing check
\* decides the error: what is not an array gives TypeError whatever the
\* parameter is, an empty array gives ValueError even with a parameter that is
\* not numeric, a non-empty array with such a parameter gives TypeError; no
\* result is returned in any of these cases.
C13_ValidationOrder ==
    op \in {"hypothesis_testing", "calculate_probability"} =>
        /\ ~IsNdarray(height_data) => (outcome = "TypeError" /\ result = <<>>)
        /\ EmptySample => (outcome = "ValueError" /\ result = <<>>)
        /\ (ValidSample /\ ~IsNumeric(args[1])) =>
              (outcome = "TypeError" /\ result = <<>>)

\* hypothesis_testing has raised ValueError for an empty array given together
\* with a parameter that is not numeric.
C13_Witness ==
    /\ op = "hypothesis_testing"
    /\ EmptySample
    /\ ~IsNumeric(args[1])
    /\ outcome = "ValueError"

\* C12: for a dataset that has the 'Sex' and 'Disease' columns with a boolean
\* 'Disease' column (no diseased rows and equal counts included),
\* who_suffers_more_from_disease returns the gender with more diseased rows
\* and the percentage difference (higher - lower) / higher * 100; a missing
\* column raises ValueError and a 'Disease' column that is not boolean raises
\* TypeError.  (With equal counts, either gender satisfies the claim.)
C12_WhoSuffersMore ==
    op = "who_suffers_more_from_disease" =>
        LET data == heart_disease_data
            hasColumns == {"Sex", "Disease"} \subseteq data.columns
            men == Cardinality({i \in DOMAIN data.rows :
                       data.rows[i].Sex = "male" /\ data.rows[i].Disease})
            women == Cardinality({i \in DOMAIN data.rows :
                         data.rows[i].Sex = "female" /\ data.rows[i].Disease})
        IN  /\ ~hasColumns => outcome = "ValueError"
            /\ (hasColumns /\ data.dtype # "bool") => outcome = "TypeError"
            /\ (hasColumns /\ data.dtype = "bool") =>
                  /\ outcome = "ok"
                  /\ result[1] \in {"men", "women"}
                  /\ result[1] = "men" => men >= women
                  /\ result[1] = "women" => women >= men
                  /\ result[2] * (IF men >= women THEN men ELSE women)
                        = 100 * (IF men >= women THEN men - women ELSE women - men)
                              * result[3]
                  /\ result[3] > 0

\* C14: the exercise1 script, started on the default generated sample of 1000
\* values, runs its statements in order and completes the last one: no
\* statement raises an error, and the 'Probability-value' it prints in the
\* hypothesis-testing step is the probability-value of the hypothesis test.
C14_ScriptCompletes ==
    /\ pc # "raised"
    /\ pc \in {"256", "done"} =>
          <<hypothesis_testing(height_data, PyInt(DefaultNullHypothesisMean)).result[2]>>
              = stdout[Len(stdout) - (IF pc = "done" THEN 1 ELSE 0)]

====
